---------------------------- MODULE Spec2Model ----------------------------
(***************************************************************************)
(* A model of src/compat.h as the C preprocessor and compiler see it.      *)
(*                                                                         *)
(* The header has no run-time behaviour; what it does, it does to the      *)
(* translation unit that includes it.  The state is therefore the state of *)
(* one translation: the macro table, the ordinary identifiers declared so  *)
(* far, the stack of open #ifndef groups and the line of the header being  *)
(* read.  There is one action per directive or declaration of the header,  *)
(* named after its line, and one for the #include that enters the header.  *)
(* The environment the header is included into (what was #defined before,  *)
(* whether the build treats diagnostics as errors) is chosen in Init.      *)
(***************************************************************************)
EXTENDS Integers, Sequences, FiniteSets, TLC

(* How many times the translation unit includes the header. *)
MaxIncludes == 3

----------------------------------------------------------------------------
(* Preprocessing tokens.  A token carries its spelling (s) or, for a       *)
(* number, its value (n).                                                  *)

Num(n) == [k |-> "num", s |-> "", n |-> n]
Id(s) == [k |-> "id", s |-> s, n |-> 0]
P(s) == [k |-> "punct", s |-> s, n |-> 0]

(* A macro definition: object-like or function-like, its parameters and    *)
(* its replacement list.                                                   *)
Obj(body) == [defined |-> TRUE, fn |-> FALSE, params |-> <<>>, body |-> body]
Fn(params, body) == [defined |-> TRUE, fn |-> TRUE, params |-> params, body |-> body]
Undef == [defined |-> FALSE, fn |-> FALSE, params |-> <<>>, body |-> <<>>]

----------------------------------------------------------------------------
(* The text of the header, line by line.                                   *)

(* line 5: #ifndef COMPAT_H *)
Line5Name == "COMPAT_H"
(* line 6: #define COMPAT_H *)
Mut_Line6Name == "COMPAT_H_"
Line6Name == "COMPAT_H"
Def_COMPAT_H == Obj(<<>>)

(* line 8: #define MILLISEC 1000 *)
Mut_Def_MILLISEC == Obj(<<Num(1000000)>>)
Def_MILLISEC == Obj(<<Num(1000)>>)

(* line 10: #define PATH_MAX 1024 *)
Mut_Def_PATH_MAX == Obj(<<Num(1023)>>)
Def_PATH_MAX == Obj(<<Num(1024)>>)

(* lines 12-14: #define EXIT_SUCCESS 0, EXIT_FAILURE 1, EXIT_USAGE 2 *)
Def_EXIT_FAILURE == Obj(<<Num(1)>>)
Mut_Def_EXIT_SUCCESS == Def_EXIT_FAILURE
Def_EXIT_SUCCESS == Obj(<<Num(0)>>)
Mut_Def_EXIT_USAGE == Def_EXIT_FAILURE
Def_EXIT_USAGE == Obj(<<Num(2)>>)

(* line 16: typedef enum { B_FALSE, B_TRUE } boolean_t; *)
BooleanEnumerators == <<"B_FALSE", "B_TRUE">>
BooleanTypeName == "boolean_t"

(* line 19: #ifndef png_jmpbuf *)
Mut_Line19Name == "PNG_JMPBUF"
Line19Name == "png_jmpbuf"
(* line 20: #define png_jmpbuf(png_ptr) ((png_ptr)->jmpbuf) *)
Mut_Def_png_jmpbuf ==
    Fn(<<"png_ptr">>, <<P("("), Id("png_ptr"), P("->"), Id("jmpbuf"), P(")")>>)
Def_png_jmpbuf ==
    Fn(<<"png_ptr">>,
       <<P("("), P("("), Id("png_ptr"), P(")"), P("->"), Id("jmpbuf"), P(")")>>)

(* The lines that hold a directive or a declaration, in file order; 0 is   *)
(* the including file.                                                     *)
Lines == <<5, 6, 8, 10, 12, 13, 14, 16, 19, 20, 21, 23>>

NextLine(l) ==
    LET i == CHOOSE j \in 1..Len(Lines) : Lines[j] = l
    IN  IF i = Len(Lines) THEN 0 ELSE Lines[i + 1]

----------------------------------------------------------------------------
(* What may be defined before the header is included.                      *)

\* libpng 1.4 and later define the accessor as a call:
\*   #define png_jmpbuf(png_ptr) \
\*       ( *png_set_longjmp_fn((png_ptr), longjmp, (sizeof (jmp_buf))))
NewerPngJmpbuf ==
    Fn(<<"png_ptr">>,
       <<P("("), P("*"), Id("png_set_longjmp_fn"), P("("), P("("),
         Id("png_ptr"), P(")"), P(","), Id("longjmp"), P(","), P("("),
         Id("sizeof"), P("("), Id("jmp_buf"), P(")"), P(")"), P(")"), P(")")>>)

(* png_jmpbuf before the header: missing (oldest libpng), the field access *)
(* (libpng 1.0.6 to 1.2 define it exactly so), or the libpng 1.4 form.     *)
PriorPng == {Undef, Def_png_jmpbuf, NewerPngJmpbuf}

(* Each constant before the header: not defined, defined as the header     *)
(* defines it (stdlib.h gives EXIT_SUCCESS 0 and EXIT_FAILURE 1), or       *)
(* defined otherwise (limits.h gives PATH_MAX 4096 on Linux).              *)
PriorOf(def) == {Undef, def, Obj(<<Num(4096)>>)}

(* COMPAT_H is the header's own guard: nothing but line 6 defines it, so   *)
(* it is not a macro before the first inclusion.                           *)
MacroNames ==
    {"COMPAT_H", "MILLISEC", "PATH_MAX", "EXIT_SUCCESS", "EXIT_FAILURE",
     "EXIT_USAGE", "png_jmpbuf"}

----------------------------------------------------------------------------
VARIABLES
    macros,       \* the macro table: name -> definition (or Undef)
    enumerators,  \* enumeration constants declared: name -> value
    typedefs,     \* typedef names declared: name -> its enumerators
    ndecl,        \* how many times line 16 has been compiled
    cond,         \* open #ifndef groups, innermost last: TRUE = being read
    pc,           \* the line of the header being read; 0 = outside it
    nincl,        \* #include "compat.h" directives met so far
    diag,         \* names the translator has issued a diagnostic about
    status,       \* "ok", or "failed" once the translation is abandoned
    werror,       \* the build turns constraint diagnostics into errors
    before        \* the macro table the header is first included into

vars ==
    <<macros, enumerators, typedefs, ndecl, cond, pc, nincl, diag, status,
      werror, before>>

env == <<enumerators, typedefs, ndecl>>

Init ==
    /\ \E ms \in PriorOf(Def_MILLISEC), pm \in PriorOf(Def_PATH_MAX),
          es \in PriorOf(Def_EXIT_SUCCESS), ef \in PriorOf(Def_EXIT_FAILURE),
          eu \in PriorOf(Def_EXIT_USAGE), pj \in PriorPng :
            macros = [n \in MacroNames |->
                        CASE n = "MILLISEC" -> ms
                          [] n = "PATH_MAX" -> pm
                          [] n = "EXIT_SUCCESS" -> es
                          [] n = "EXIT_FAILURE" -> ef
                          [] n = "EXIT_USAGE" -> eu
                          [] n = "png_jmpbuf" -> pj
                          [] OTHER -> Undef]
    /\ enumerators = [n \in {} |-> 0]
    /\ typedefs = [n \in {} |-> <<>>]
    /\ ndecl = 0
    /\ cond = <<>>
    /\ pc = 0
    /\ nincl = 0
    /\ diag = {}
    /\ status = "ok"
    /\ werror \in BOOLEAN
    /\ before = macros

----------------------------------------------------------------------------
(* The preprocessor.                                                       *)

Defined(name) == name \in DOMAIN macros /\ macros[name].defined

(* A line is read only when every enclosing group is being read. *)
Active == \A i \in 1..Len(cond) : cond[i]

(* #ifndef name: open a group, read iff the enclosing text is read and     *)
(* name is not a macro.                                                    *)
DoIfndef(name) == cond' = Append(cond, Active /\ ~Defined(name))

(* #endif: close the innermost group. *)
DoEndif == cond' = SubSeq(cond, 1, Len(cond) - 1)

(* #define name m with first-definition-wins: the slip of wrapping every   *)
(* constant in #ifndef.                                                    *)
Mut_DoDefine(name, m) ==
    /\ macros' = IF Active /\ ~Defined(name) THEN (name :> m) @@ macros ELSE macros
    /\ UNCHANGED <<diag, status>>

(* #define name m.  A macro may be defined again only identically          *)
(* (C99 6.10.3p2); otherwise a diagnostic is due, after which the          *)
(* translator either goes on with the new definition (a warning) or gives  *)
(* up (an error, as under -Werror).                                        *)
DoDefine(name, m) ==
    IF ~Active
    THEN UNCHANGED <<macros, diag, status>>
    ELSE IF Defined(name) /\ macros[name] # m
         THEN /\ diag' = diag \cup {name}
              /\ IF werror
                 THEN status' = "failed" /\ UNCHANGED macros
                 ELSE status' = status /\ macros' = (name :> m) @@ macros
         ELSE /\ macros' = (name :> m) @@ macros
              /\ UNCHANGED <<diag, status>>

(* The values of an enumerator list without initialisers (C99 6.7.2.2p3):  *)
(* the first is `first', each later one is one more than the one before.   *)
RECURSIVE EnumValuesFrom(_, _)
EnumValuesFrom(names, first) ==
    IF names = <<>> THEN <<>>
    ELSE <<first>> \o EnumValuesFrom(Tail(names), first + 1)

(* Slips: every enumerator given the same value; counting from one. *)
Mut_EnumValuesSame(names) == [i \in 1..Len(names) |-> 0]
Mut_EnumValuesFromOne(names) == EnumValuesFrom(names, 1)

EnumValues(names) == EnumValuesFrom(names, 0)

Range(s) == {s[i] : i \in 1..Len(s)}

(* typedef enum { names } tname; declaring a name again is an error. *)
DoTypedefEnum(names, tname) ==
    IF ~Active
    THEN UNCHANGED <<enumerators, typedefs, ndecl, diag, status>>
    ELSE /\ ndecl' = ndecl + 1
         /\ IF Range(names) \cap DOMAIN enumerators # {} \/ tname \in DOMAIN typedefs
            THEN /\ diag' = diag \cup {tname}
                 /\ status' = "failed"
                 /\ UNCHANGED <<enumerators, typedefs>>
            ELSE /\ enumerators' =
                       [n \in Range(names) |->
                          EnumValues(names)[CHOOSE i \in 1..Len(names) : names[i] = n]]
                       @@ enumerators
                 /\ typedefs' = (tname :> Range(names)) @@ typedefs
                 /\ UNCHANGED <<diag, status>>

----------------------------------------------------------------------------
(* The including file and the lines of the header.                         *)

Reading(l) == status = "ok" /\ pc = l
Goto(l) == pc' = NextLine(l) /\ UNCHANGED <<nincl, werror, before>>

(* #include "compat.h" *)
Include ==
    /\ Reading(0)
    /\ nincl < MaxIncludes
    /\ nincl' = nincl + 1
    /\ pc' = Lines[1]
    /\ UNCHANGED <<macros, enumerators, typedefs, ndecl, cond, diag, status,
                   werror, before>>

Line5 ==
    /\ Reading(5) /\ Goto(5)
    /\ DoIfndef(Line5Name)
    /\ UNCHANGED <<macros, env, diag, status>>

Line6 ==
    /\ Reading(6) /\ Goto(6)
    /\ DoDefine(Line6Name, Def_COMPAT_H)
    /\ UNCHANGED <<env, cond>>

Line8 ==
    /\ Reading(8) /\ Goto(8)
    /\ DoDefine("MILLISEC", Def_MILLISEC)
    /\ UNCHANGED <<env, cond>>

Line10 ==
    /\ Reading(10) /\ Goto(10)
    /\ DoDefine("PATH_MAX", Def_PATH_MAX)
    /\ UNCHANGED <<env, cond>>

Line12 ==
    /\ Reading(12) /\ Goto(12)
    /\ DoDefine("EXIT_SUCCESS", Def_EXIT_SUCCESS)
    /\ UNCHANGED <<env, cond>>

Line13 ==
    /\ Reading(13) /\ Goto(13)
    /\ DoDefine("EXIT_FAILURE", Def_EXIT_FAILURE)
    /\ UNCHANGED <<env, cond>>

Line14 ==
    /\ Reading(14) /\ Goto(14)
    /\ DoDefine("EXIT_USAGE", Def_EXIT_USAGE)
    /\ UNCHANGED <<env, cond>>

Line16 ==
    /\ Reading(16) /\ Goto(16)
    /\ DoTypedefEnum(BooleanEnumerators, BooleanTypeName)
    /\ UNCHANGED <<macros, cond>>

Line19 ==
    /\ Reading(19) /\ Goto(19)
    /\ DoIfndef(Line19Name)
    /\ UNCHANGED <<macros, env, diag, status>>

Line20 ==
    /\ Reading(20) /\ Goto(20)
    /\ DoDefine("png_jmpbuf", Def_png_jmpbuf)
    /\ UNCHANGED <<env, cond>>

Line21 ==
    /\ Reading(21) /\ Goto(21)
    /\ DoEndif
    /\ UNCHANGED <<macros, env, diag, status>>

Line23 ==
    /\ Reading(23) /\ Goto(23)
    /\ DoEndif
    /\ UNCHANGED <<macros, env, diag, status>>

----------------------------------------------------------------------------
(* Using what the header defines: macro replacement and the value of the   *)
(* expression that results.                                                *)

Value(n) == [ok |-> TRUE, v |-> n]
NoValue == [ok |-> FALSE, v |-> 0]

(* An object-like macro name in the program text is replaced by its        *)
(* replacement list; any other identifier stays.                           *)
Replace(name) ==
    IF Defined(name) /\ ~macros[name].fn THEN macros[name].body ELSE <<Id(name)>>

(* The integer constant the name stands for in an expression. *)
Const(name) ==
    LET toks == Replace(name)
    IN  IF Len(toks) = 1 /\ toks[1].k = "num" THEN Value(toks[1].n) ELSE NoValue

(* The value of an enumeration constant. *)
EnumConst(name) ==
    IF name \in DOMAIN enumerators THEN Value(enumerators[name]) ELSE NoValue

(* A replacement list with each parameter replaced by its argument. *)
RECURSIVE Subst(_, _, _)
Subst(body, params, args) ==
    IF body = <<>> THEN <<>>
    ELSE LET t == body[1]
             hit == {i \in 1..Len(params) : t.k = "id" /\ t.s = params[i]}
         IN  (IF hit = {} THEN <<t>> ELSE args[CHOOSE i \in hit : TRUE])
             \o Subst(Tail(body), params, args)

(* name(args) in the program text, after macro replacement. *)
Invoke(name, args) ==
    IF Defined(name) /\ macros[name].fn /\ Len(macros[name].params) = Len(args)
    THEN Subst(macros[name].body, macros[name].params, args)
    ELSE <<Id(name), P("(")>> \o args[1] \o <<P(")")>>

(* The objects a png_ptr argument may refer to: two png structures, each   *)
(* with its jmpbuf among other members, a pointer to each, and a pointer   *)
(* to a pointer.                                                           *)
Ptr(o) == [t |-> "ptr", o |-> o, f |-> ""]
Member(o, f) == [t |-> "member", o |-> o, f |-> f]
Err == [t |-> "err", o |-> "", f |-> ""]

Structs == {"png1", "png2"}
StructMembers == {"jmpbuf", "io_ptr"}
Variables == [p |-> Ptr("png1"), q |-> Ptr("png2"), pp |-> Ptr("cell")]
Cells == [cell |-> Ptr("png1")]

(* e->f *)
Arrow(v, f) ==
    IF v.t = "ptr" /\ v.o \in Structs /\ f \in StructMembers
    THEN Member(v.o, f) ELSE Err

(* *e *)
Deref(v) == IF v.t = "ptr" /\ v.o \in DOMAIN Cells THEN Cells[v.o] ELSE Err

(* The index of the ")" that closes the "(" at toks[1]; 0 if there is none. *)
RECURSIVE CloseOf(_, _, _)
CloseOf(toks, i, depth) ==
    IF i > Len(toks) THEN 0
    ELSE LET d == IF toks[i] = P("(") THEN depth + 1
                  ELSE IF toks[i] = P(")") THEN depth - 1 ELSE depth
         IN  IF d = 0 THEN i ELSE CloseOf(toks, i + 1, d)

(* The object an expression designates, by C's grammar for the operators   *)
(* the header uses: unary * binds less tightly than postfix ->.            *)
RECURSIVE EvalUnary(_), EvalPostfix(_), EvalPrimary(_)
EvalUnary(toks) ==
    IF toks = <<>> THEN Err
    ELSE IF toks[1] = P("*") THEN Deref(EvalUnary(Tail(toks)))
    ELSE EvalPostfix(toks)

EvalPostfix(toks) ==
    IF Len(toks) >= 3 /\ toks[Len(toks) - 1] = P("->") /\ toks[Len(toks)].k = "id"
    THEN Arrow(EvalPostfix(SubSeq(toks, 1, Len(toks) - 2)), toks[Len(toks)].s)
    ELSE EvalPrimary(toks)

EvalPrimary(toks) ==
    IF Len(toks) = 1
    THEN IF toks[1].k = "id" /\ toks[1].s \in DOMAIN Variables
         THEN Variables[toks[1].s] ELSE Err
    ELSE IF Len(toks) >= 3 /\ toks[1] = P("(") /\ CloseOf(toks, 1, 0) = Len(toks)
    THEN EvalUnary(SubSeq(toks, 2, Len(toks) - 1))
    ELSE Err

(* Pointer expressions a caller may pass, each with the structure it       *)
(* points to.                                                              *)
PngArgs ==
    { [arg |-> <<Id("p")>>, struct |-> "png1"],
      [arg |-> <<Id("q")>>, struct |-> "png2"],
      [arg |-> <<P("*"), Id("pp")>>, struct |-> "png1"] }

Next ==
    \/ Include
    \/ Line5 \/ Line6 \/ Line8 \/ Line10 \/ Line12 \/ Line13 \/ Line14
    \/ Line16 \/ Line19 \/ Line20 \/ Line21 \/ Line23

Spec == Init /\ [][Next]_vars

----------------------------------------------------------------------------
(* The properties of the header.                                           *)

(* The translation has read the header to its end at least once. *)
Included == status = "ok" /\ pc = 0 /\ nincl >= 1

(* The first inclusion is over: the translation is past it for good. *)
HasBeenIncluded == nincl >= 2 \/ (nincl = 1 /\ pc = 0)

(* C1: after compat.h is included, EXIT_SUCCESS is 0, EXIT_FAILURE is 1    *)
(* and EXIT_USAGE is 2.                                                    *)
C1_ExitStatusValues ==
    Included =>
        /\ Const("EXIT_SUCCESS") = Value(0)
        /\ Const("EXIT_FAILURE") = Value(1)
        /\ Const("EXIT_USAGE") = Value(2)

C1_Witness ==
    /\ Included
    /\ \A n \in {"EXIT_SUCCESS", "EXIT_FAILURE", "EXIT_USAGE"} : ~before[n].defined
    /\ Const("EXIT_USAGE") = Value(2)

(* C2: after compat.h is included, MILLISEC is 1000. *)
C2_MillisecValue == Included => Const("MILLISEC") = Value(1000)

C2_Witness ==
    Included /\ ~before["MILLISEC"].defined /\ Const("MILLISEC") = Value(1000)

(* C3: after compat.h is included, PATH_MAX is 1024. *)
C3_PathMaxValue == Included => Const("PATH_MAX") = Value(1024)

C3_Witness ==
    Included /\ ~before["PATH_MAX"].defined /\ Const("PATH_MAX") = Value(1024)

(* C4: boolean_t has exactly two values, B_FALSE and B_TRUE, and they are  *)
(* distinct.                                                               *)
C4_BooleanTwoValues ==
    Included =>
        /\ "boolean_t" \in DOMAIN typedefs
        /\ typedefs["boolean_t"] = {"B_FALSE", "B_TRUE"}
        /\ typedefs["boolean_t"] \subseteq DOMAIN enumerators
        /\ Cardinality({enumerators[n] : n \in typedefs["boolean_t"]}) = 2
        /\ enumerators["B_FALSE"] # enumerators["B_TRUE"]

C4_Witness ==
    Included /\ ndecl = 1 /\ DOMAIN enumerators = {"B_FALSE", "B_TRUE"}

(* C5: when png_jmpbuf is not defined where compat.h is included, the      *)
(* header defines png_jmpbuf(png_ptr) as ((png_ptr)->jmpbuf), so that the  *)
(* accessor applied to any pointer designates the jmpbuf member of the     *)
(* structure pointed to.                                                   *)
C5_PngFallback ==
    (Included /\ ~before["png_jmpbuf"].defined) =>
        /\ macros["png_jmpbuf"].defined /\ macros["png_jmpbuf"].fn
        /\ macros["png_jmpbuf"].params = <<"png_ptr">>
        /\ macros["png_jmpbuf"].body =
              <<P("("), P("("), Id("png_ptr"), P(")"), P("->"), Id("jmpbuf"), P(")")>>
        /\ \A a \in PngArgs :
              EvalUnary(Invoke("png_jmpbuf", <<a.arg>>)) = Member(a.struct, "jmpbuf")

C5_Witness ==
    /\ Included
    /\ ~before["png_jmpbuf"].defined
    /\ EvalUnary(Invoke("png_jmpbuf", <<(<<P("*"), Id("pp")>>)>>))
         = Member("png1", "jmpbuf")

(* C6: when png_jmpbuf is already a macro where compat.h is included, the  *)
(* header leaves that definition as it was, with no diagnostic: the        *)
(* fallback is installed only when the accessor is missing.                *)
C6_PngUntouched ==
    before["png_jmpbuf"].defined =>
        /\ macros["png_jmpbuf"] = before["png_jmpbuf"]
        /\ "png_jmpbuf" \notin diag

C6_Witness ==
    /\ Included
    /\ before["png_jmpbuf"] = NewerPngJmpbuf
    /\ macros["png_jmpbuf"] = NewerPngJmpbuf

(* The values the header exports. *)
Exported ==
    [MILLISEC |-> Const("MILLISEC"), PATH_MAX |-> Const("PATH_MAX"),
     EXIT_SUCCESS |-> Const("EXIT_SUCCESS"), EXIT_FAILURE |-> Const("EXIT_FAILURE"),
     EXIT_USAGE |-> Const("EXIT_USAGE"),
     B_FALSE |-> EnumConst("B_FALSE"), B_TRUE |-> EnumConst("B_TRUE")]

(* C7: the exported values are immutable: once the header has been         *)
(* included, no step of the header changes any of them, and each has its   *)
(* defined value in every state from then on.                              *)
C7_ExportedImmutable ==
    /\ [](HasBeenIncluded =>
            Exported = [MILLISEC |-> Value(1000), PATH_MAX |-> Value(1024),
                        EXIT_SUCCESS |-> Value(0), EXIT_FAILURE |-> Value(1),
                        EXIT_USAGE |-> Value(2),
                        B_FALSE |-> Value(0), B_TRUE |-> Value(1)])
    /\ [][HasBeenIncluded => Exported' = Exported]_vars

C7_Witness == status = "ok" /\ nincl = 2 /\ pc = 16 /\ Exported.B_TRUE = Value(1)

(* C8: including the header again is idempotent: once it has been included *)
(* a further inclusion defines nothing and changes nothing, whatever the   *)
(* number of inclusions, and boolean_t is declared only once.              *)
C8_IncludeIdempotent ==
    /\ [][HasBeenIncluded =>
            UNCHANGED <<macros, enumerators, typedefs, ndecl, diag, status>>]_vars
    /\ [](ndecl <= 1)
    /\ [](HasBeenIncluded => status = "ok")

C8_Witness == Included /\ nincl = MaxIncludes /\ ndecl = 1

(* C9: the five constants are defined unconditionally: in the first        *)
(* inclusion, once the line of a constant has been read the constant has   *)
(* the header's value whatever was defined before; only png_jmpbuf keeps   *)
(* an earlier definition.                                                  *)
After(l) == status = "ok" /\ nincl >= 1 /\ (pc = 0 \/ pc > l \/ nincl >= 2)

C9_ConstantsUnconditional ==
    /\ After(8) => macros["MILLISEC"].body = <<Num(1000)>>
    /\ After(10) => macros["PATH_MAX"].body = <<Num(1024)>>
    /\ After(12) => macros["EXIT_SUCCESS"].body = <<Num(0)>>
    /\ After(13) => macros["EXIT_FAILURE"].body = <<Num(1)>>
    /\ After(14) => macros["EXIT_USAGE"].body = <<Num(2)>>

C9_Witness ==
    /\ Included
    /\ \A n \in {"MILLISEC", "PATH_MAX", "EXIT_SUCCESS", "EXIT_FAILURE", "EXIT_USAGE"} :
          before[n].defined /\ before[n] # macros[n]
    /\ macros["png_jmpbuf"] = before["png_jmpbuf"]
    /\ macros["png_jmpbuf"] # Def_png_jmpbuf

(* C10: B_FALSE is 0 and B_TRUE is 1, so B_FALSE is the only boolean_t     *)
(* value that is zero and B_TRUE is not zero.                              *)
C10_BooleanNumericValues ==
    Included =>
        /\ EnumConst("B_FALSE") = Value(0)
        /\ EnumConst("B_TRUE") = Value(1)
        /\ \A n \in typedefs["boolean_t"] : (enumerators[n] = 0) <=> (n = "B_FALSE")

C10_Witness == Included /\ EnumConst("B_TRUE") = Value(1) /\ nincl = 1

=============================================================================
